---- MODULE Spec2Model ----
(***************************************************************************)
(* Model of knowledge_graph.py: the Graph Index built by                   *)
(* scan_knowledge_files, reference resolution (resolve_node_id), the       *)
(* breadth-first dependency resolver (resolve_dependencies) and the        *)
(* context assembler (build_context, parse_optional_deps, matches_task).   *)
(*                                                                         *)
(* Python strings are sequences of one-character strings, so that suffix,  *)
(* substring, lower-casing and path operations are computed, not assumed.  *)
(***************************************************************************)
EXTENDS Integers, Sequences, FiniteSets, TLC

(***************************************************************************)
(* Bounds of the model.                                                    *)
(***************************************************************************)
\* Largest number of requires/optional entries declared by a corpus.
MaxEdges == 3

(***************************************************************************)
(* Strings.                                                                *)
(***************************************************************************)
\* Python's None, and the two exceptions the modelled code can raise.  They
\* are one-element sequences holding a long string, so they differ from every
\* modelled Python string (whose elements are single characters).
None == <<"<None>">>
TypeError == <<"<TypeError>">>
RuntimeError == <<"<RuntimeError>">>

IsRaise(v) == v = TypeError \/ v = RuntimeError

\* str.lower() on the modelled alphabet.
LowerChar(c) ==
    CASE c = "A" -> "a"
      [] c = "B" -> "b"
      [] c = "D" -> "d"
      [] c = "E" -> "e"
      [] c = "G" -> "g"
      [] OTHER -> c

Lower(s) == [i \in 1..Len(s) |-> LowerChar(s[i])]

\* s[i:] with a 0-based Python index i >= 0.
From(s, i) == IF i >= Len(s) THEN <<>> ELSE SubSeq(s, i + 1, Len(s))

\* str.startswith / str.endswith
StartsWith(s, p) == Len(p) <= Len(s) /\ SubSeq(s, 1, Len(p)) = p
EndsWith(s, p) == Len(p) <= Len(s) /\ SubSeq(s, Len(s) - Len(p) + 1, Len(s)) = p

\* `sub in s` for strings
Contains(s, sub) ==
    \E i \in 0..(Len(s) - Len(sub)) : SubSeq(s, i + 1, i + Len(sub)) = sub

\* `x in list`
InList(x, list) == \E i \in 1..Len(list) : list[i] = x

\* The element of a one-element set.  Only({F(x) : x \in {e}}) is F(e) with e
\* evaluated once, however often F uses it.
Only(S) == CHOOSE x \in S : TRUE

\* set(list)
Elems(list) == {list[i] : i \in 1..Len(list)}

Reverse(list) == [i \in 1..Len(list) |-> list[Len(list) + 1 - i]]

\* str.strip('"\'')
QuoteChars == {"\"", "'"}

RECURSIVE LStripQuotes(_)
LStripQuotes(s) ==
    IF s # <<>> /\ Head(s) \in QuoteChars THEN LStripQuotes(Tail(s)) ELSE s

StripQuotes(s) == Reverse(LStripQuotes(Reverse(LStripQuotes(s))))

(***************************************************************************)
(* pathlib on POSIX: a path string is split at "/", empty and "."          *)
(* components are dropped, and the parts are joined again.                 *)
(***************************************************************************)
\* The components of a path string, in order.  acc is the component being read.
RECURSIVE SplitParts(_, _)
SplitParts(s, acc) ==
    IF s = <<>> THEN (IF acc = <<>> \/ acc = <<".">> THEN <<>> ELSE <<acc>>)
    ELSE IF Head(s) = "/"
         THEN (IF acc = <<>> \/ acc = <<".">> THEN <<>> ELSE <<acc>>)
              \o SplitParts(Tail(s), <<>>)
         ELSE SplitParts(Tail(s), Append(acc, Head(s)))

PathParts(s) == SplitParts(s, <<>>)

IsAbsolute(s) == s # <<>> /\ Head(s) = "/"

RECURSIVE JoinParts(_)
JoinParts(parts) ==
    IF parts = <<>> THEN <<>>
    ELSE IF Len(parts) = 1 THEN parts[1]
    ELSE parts[1] \o <<"/">> \o JoinParts(Tail(parts))

\* str(Path(s))
PathStr(s) ==
    IF IsAbsolute(s) THEN <<"/">> \o JoinParts(PathParts(s))
    ELSE IF PathParts(s) = <<>> THEN <<".">>
    ELSE JoinParts(PathParts(s))

\* str(Path(base) / rel): an absolute right operand replaces the left one.
PathJoin(base, rel) ==
    IF IsAbsolute(rel) THEN PathStr(rel) ELSE PathStr(base \o <<"/">> \o rel)

\* Path(s).name
PathName(s) ==
    IF PathParts(s) = <<>> THEN <<>> ELSE PathParts(s)[Len(PathParts(s))]

\* The 0-based index of the last "." of a name, -1 when it has none.
LastDot(name) ==
    IF \E i \in 1..Len(name) : name[i] = "."
    THEN (CHOOSE i \in 1..Len(name) :
              name[i] = "." /\ \A j \in (i + 1)..Len(name) : name[j] # ".") - 1
    ELSE -1

\* Path(s).stem: the name without its last suffix; a leading or a trailing
\* dot starts no suffix.
PathStem(s) ==
    LET name == PathName(s)
        i == LastDot(name)
    IN IF 0 < i /\ i < Len(name) - 1 THEN SubSeq(name, 1, i) ELSE name

(***************************************************************************)
(* expand_path                                                             *)
(***************************************************************************)
\* Path.home()
HomeDir == <<"/", "h">>

\* WORKSPACE = Path.home() / ".openclaw" / "workspace" (shortened to one part)
WORKSPACE == PathJoin(HomeDir, <<"w">>)

\* The password database: the login names `~name` can be expanded for.
KnownUsers == {<<"r">>}
UserHome(name) == <<"/">> \o name

\* Path(path_str).expanduser() for a string that starts with "~": the first
\* part is "~" or "~name"; an unknown name raises RuntimeError.
ExpandUser(path_str) ==
    LET parts == PathParts(path_str)
        name == From(parts[1], 1)
        rest == JoinParts(Tail(parts))
    IN IF name = <<>> THEN PathJoin(HomeDir, rest)
       ELSE IF name \in KnownUsers THEN PathJoin(UserHome(name), rest)
       ELSE RuntimeError

\* str(expand_path(path_str)), or RuntimeError
ExpandPath(path_str) ==
    IF StartsWith(path_str, <<"~", "/">>) THEN PathJoin(HomeDir, From(path_str, 2))
    ELSE IF StartsWith(path_str, <<"~">>) THEN ExpandUser(path_str)
    ELSE IF ~StartsWith(path_str, <<"/">>) THEN PathJoin(WORKSPACE, path_str)
    ELSE PathStr(path_str)

(***************************************************************************)
(* The Graph Index and scan_knowledge_files.                               *)
(*                                                                         *)
(* A document is its path and the map parse_frontmatter extracted from it: *)
(*   [path, id, type, title, specialist, requires, optional]               *)
(* with None for an absent key.  An optional entry is a plain string       *)
(* [kind |-> "str", path |-> s, when |-> None] or a structured record      *)
(* [kind |-> "dict", path |-> s or None, when |-> s or None].              *)
(* Python dicts keep insertion order: by_path and by_type are sequences of *)
(* [key, val] pairs with distinct keys.                                    *)
(***************************************************************************)
Unknown == <<"u", "n", "k", "n", "o", "w", "n">>

Plain(s) == [kind |-> "str", path |-> s, when |-> None]
Conditional(p, w) == [kind |-> "dict", path |-> p, when |-> w]

\* graph = {"nodes": {}, "edges": [], "by_path": {}, "by_type": {}}
EmptyGraph ==
    [nodes |-> <<>>, edges |-> <<>>, by_path |-> <<>>, by_type |-> <<>>]

\* `key in d` and d[key] for an insertion-ordered dict
HasKey(d, key) == \E i \in 1..Len(d) : d[i].key = key
Lookup(d, key) == d[CHOOSE i \in 1..Len(d) : d[i].key = key].val

\* d[key] = val: a present key keeps its place
SetKey(d, key, val) ==
    IF HasKey(d, key)
    THEN [i \in 1..Len(d) |-> IF d[i].key = key THEN [key |-> key, val |-> val] ELSE d[i]]
    ELSE Append(d, [key |-> key, val |-> val])

\* One pass of the scan loop's body for a readable document.
RegisterDoc(graph, doc) ==
    LET node_id == IF doc.id # None THEN doc.id ELSE PathStem(doc.path)
        node_type == IF doc.type # None THEN doc.type ELSE Unknown
        node == [id |-> node_id,
                 type |-> node_type,
                 path |-> doc.path,
                 title |-> IF doc.title # None THEN doc.title ELSE PathStem(doc.path),
                 specialist |-> doc.specialist,
                 requires |-> doc.requires,
                 optional |-> doc.optional]
        ids == IF HasKey(graph.by_type, node_type)
               THEN Lookup(graph.by_type, node_type) ELSE <<>>
    IN [nodes |-> SetKey(graph.nodes, node_id, node),
        by_path |-> SetKey(graph.by_path, doc.path, node_id),
        by_type |-> SetKey(graph.by_type, node_type, Append(ids, node_id)),
        edges |-> graph.edges
                  \o [i \in 1..Len(node.requires) |->
                        <<node_id, Plain(node.requires[i]), "requires">>]
                  \o [i \in 1..Len(node.optional) |->
                        <<node_id, node.optional[i], "optional">>]]

\* scan_knowledge_files over the readable documents, in scan order
RECURSIVE ScanFrom(_, _)
ScanFrom(graph, docs) ==
    IF docs = <<>> THEN graph
    ELSE ScanFrom(RegisterDoc(graph, Head(docs)), Tail(docs))

scan_knowledge_files(docs) == ScanFrom(EmptyGraph, docs)

(***************************************************************************)
(* resolve_node_id                                                         *)
(***************************************************************************)
\* The loop over graph["by_path"].items(): the id of the first path that
\* ends with ref or whose final component is ref, None when there is none.
RECURSIVE PartialMatch(_, _)
PartialMatch(by_path, ref) ==
    IF by_path = <<>> THEN None
    ELSE IF EndsWith(Head(by_path).key, ref) \/ PathName(Head(by_path).key) = ref
         THEN Head(by_path).val
         ELSE PartialMatch(Tail(by_path), ref)

\* The node id, None, or the RuntimeError expand_path raises.
resolve_node_id(graph, ref) ==
    IF HasKey(graph.nodes, ref) THEN ref
    ELSE Only({IF IsRaise(expanded) THEN expanded
               ELSE IF HasKey(graph.by_path, expanded)
                    THEN Lookup(graph.by_path, expanded)
               ELSE PartialMatch(graph.by_path, ref) :
                  expanded \in {ExpandPath(ref)}})

\* resolve_node_id called with an entry of a requires or optional list: a
\* structured record is unhashable, and `ref in graph["nodes"]` raises.
ResolveEntry(graph, item) ==
    IF item.kind = "dict" THEN TypeError ELSE resolve_node_id(graph, item.path)

(***************************************************************************)
(* resolve_dependencies                                                    *)
(*                                                                         *)
(* The locals of one call are a record                                     *)
(*   [pc, queue, visited, resolved, result]                                *)
(* with pc "loop" while the while-loop runs, "done" once the function has  *)
(* returned and "raised" once an exception has left it; result is None in  *)
(* the loop, then the list returned or the exception raised.               *)
(***************************************************************************)
\* A truthy resolve_node_id result: neither None nor the empty string.
Truthy(id) == id # None /\ id # <<>>

\* `for req in ...: req_id = resolve_node_id(graph, req); if req_id and
\* req_id not in visited: queue.append(req_id)`.  The result is the queue and
\* the exception that ended the loop (None when it ran to its end).
RECURSIVE EnqueueAll(_, _, _, _)
EnqueueAll(graph, items, seen, q) ==
    IF items = <<>> THEN [queue |-> q, raised |-> None]
    ELSE Only({IF IsRaise(req_id) THEN [queue |-> q, raised |-> req_id]
               ELSE EnqueueAll(graph, Tail(items), seen,
                               IF Truthy(req_id) /\ req_id \notin seen
                               THEN Append(q, req_id) ELSE q) :
                  req_id \in {ResolveEntry(graph, Head(items))}})

PlainAll(refs) == [i \in 1..Len(refs) |-> Plain(refs[i])]

\* The entries the two for loops of the loop body go through, in order: the
\* requires list, and the optional list when the flag is set.
Dependencies_IgnoresFlag(node, include_opt) ==
    PlainAll(node.requires) \o node.optional

Dependencies(node, include_opt) ==
    PlainAll(node.requires) \o (IF include_opt THEN node.optional ELSE <<>>)

\* The part of the loop body that follows `if not node: continue`, for the
\* node stored under node_id: an exception leaves the function, otherwise
\* the node is appended to resolved.
ProcessNode(graph, node_id, include_opt, st) ==
    Only({IF deps.raised # None
          THEN [st EXCEPT !.pc = "raised", !.queue = deps.queue, !.result = deps.raised]
          ELSE [st EXCEPT !.queue = deps.queue,
                          !.resolved = Append(st.resolved, node_id)] :
             deps \in {EnqueueAll(graph,
                                  Dependencies(Lookup(graph.nodes, node_id), include_opt),
                                  st.visited, st.queue)}})

\* The loop body from `node = graph["nodes"].get(node_id)` on, node_id being
\* marked visited in st; found is node_id when it is an indexed id, and what
\* resolve_node_id makes of it otherwise.
AfterLookup(graph, found, include_opt, st) ==
    IF IsRaise(found) THEN [st EXCEPT !.pc = "raised", !.result = found]
    ELSE IF Truthy(found) /\ HasKey(graph.nodes, found)
         THEN ProcessNode(graph, found, include_opt, st)
    ELSE st

\* One iteration of `while queue:`.
LoopBody(graph, include_opt, st) ==
    IF Head(st.queue) \in st.visited THEN [st EXCEPT !.queue = Tail(st.queue)]
    ELSE Only({AfterLookup(graph, found, include_opt,
                           [st EXCEPT !.queue = Tail(st.queue),
                                      !.visited = st.visited \cup {Head(st.queue)}]) :
                  found \in {IF HasKey(graph.nodes, Head(st.queue)) THEN Head(st.queue)
                            ELSE resolve_node_id(graph, Head(st.queue))}})

\* resolved = [], visited = set(), queue = deque([entry_id])
StartResolve(entry) ==
    [pc |-> "loop", queue |-> <<entry>>, visited |-> {}, resolved |-> <<>>,
     result |-> None]

\* return list(reversed(resolved))
ReturnList(st) == [st EXCEPT !.pc = "done", !.result = Reverse(st.resolved)]

\* resolve_dependencies run to its end: the locals when the function is left.
RECURSIVE RunLoop(_, _, _)
RunLoop(graph, include_opt, st) ==
    IF st.pc # "loop" THEN st
    ELSE IF st.queue = <<>> THEN ReturnList(st)
    ELSE Only({RunLoop(graph, include_opt, next) :
                  next \in {LoopBody(graph, include_opt, st)}})

\* The list returned, or the exception raised.
resolve_dependencies(graph, entry, include_opt) ==
    RunLoop(graph, include_opt, StartResolve(entry)).result

(***************************************************************************)
(* matches_task and parse_optional_deps                                    *)
(*                                                                         *)
(* Patterns are written in a small dialect of Python's regular             *)
(* expressions: a letter matches itself in either case, "." matches any    *)
(* character, and "(" opens a group that nothing closes, which re.search   *)
(* rejects with re.error.                                                  *)
(***************************************************************************)
\* re.compile(pattern) raises re.error
ReError(pattern) == InList("(", pattern)

\* bool(re.search(pattern, task, re.IGNORECASE)) for a pattern that compiles
ReSearch(pattern, task) ==
    \E off \in 0..(Len(task) - Len(pattern)) :
        \A k \in 1..Len(pattern) :
            pattern[k] = "." \/ LowerChar(pattern[k]) = LowerChar(task[off + k])

\* matches_task without re.IGNORECASE and without lower(): letters match in
\* their own case only.
matches_task_CaseSensitive(pattern, task) ==
    IF task = <<>> \/ pattern = <<>> THEN FALSE
    ELSE LET stripped == StripQuotes(pattern)
         IN IF ReError(stripped) THEN Contains(task, stripped)
            ELSE \E off \in 0..(Len(task) - Len(stripped)) :
                    \A k \in 1..Len(stripped) :
                        stripped[k] = "." \/ stripped[k] = task[off + k]

matches_task(pattern, task) ==
    IF task = <<>> \/ pattern = <<>> THEN FALSE
    ELSE LET stripped == StripQuotes(pattern)
         IN IF ReError(stripped) THEN Contains(Lower(task), Lower(stripped))
            ELSE ReSearch(stripped, task)

\* item.get("path", "") and item.get("when", "")
GetOr(value, default) == IF value = None THEN default ELSE value

\* The loop of parse_optional_deps; acc is [to_load, skipped].
RECURSIVE ParseLoop(_, _, _)
ParseLoop(optional_list, task, acc) ==
    IF optional_list = <<>> THEN acc
    ELSE LET item == Head(optional_list)
             path == GetOr(item.path, <<>>)
             load == IF item.kind = "str" THEN task # <<>>
                     ELSE matches_task(GetOr(item.when, <<>>), task)
         IN ParseLoop(Tail(optional_list), task,
                      IF load THEN [acc EXCEPT !.to_load = Append(@, path)]
                      ELSE [acc EXCEPT !.skipped = Append(@, path)])

parse_optional_deps(optional_list, task) ==
    ParseLoop(optional_list, task, [to_load |-> <<>>, skipped |-> <<>>])

(***************************************************************************)
(* build_context                                                           *)
(***************************************************************************)
\* any(p.lower() in name.lower() for p in pills)
AnyPill(pills, name) ==
    \E i \in 1..Len(pills) : Contains(Lower(name), Lower(pills[i]))

\* The pills branch: `for opt in optional:`.  A structured record without a
\* path key stands for its own path (opt.get("path", opt)); Path() of a dict
\* raises TypeError, which ends the loop.  acc is [to_load, skipped, raised].
RECURSIVE PillLoop(_, _, _)
PillLoop(optional, pills, acc) ==
    IF optional = <<>> THEN acc
    ELSE LET opt == Head(optional)
         IN IF opt.kind = "dict" /\ opt.path = None
            THEN [acc EXCEPT !.raised = TRUE]
            ELSE PillLoop(Tail(optional), pills,
                          IF AnyPill(pills, PathStem(opt.path))
                          THEN [acc EXCEPT !.to_load = Append(@, opt.path)]
                          ELSE [acc EXCEPT !.skipped = Append(@, opt.path)])

\* The optional entries of one loaded node: what is scheduled and skipped.
SelectOptional(optional, task, pills) ==
    IF pills # <<>>
    THEN PillLoop(optional, pills, [to_load |-> <<>>, skipped |-> <<>>, raised |-> FALSE])
    ELSE parse_optional_deps(optional, task)

\* "~/gdrive", shortened
GdrivePrefix == <<"~", "/", "g">>

\* req.startswith("~/gdrive") or req.startswith("/")
IsExternalRef(req) == StartsWith(req, GdrivePrefix) \/ StartsWith(req, <<"/">>)

\* The body of `for node_id in all_deps:` for a node whose file exists and
\* reads; ctx holds files, external_refs_required, external_refs_optional
\* and skipped_optional.
LoadNode(graph, node_id, task, pills, ctx) ==
    LET node == Lookup(graph.nodes, node_id)
        sel == SelectOptional(node.optional, task, pills)
    IN [files |-> SetKey(ctx.files, node_id, node.path),
        external_refs_required |->
            ctx.external_refs_required
            \cup {r \in Elems(node.requires) : IsExternalRef(r)},
        external_refs_optional |-> ctx.external_refs_optional \o sel.to_load,
        skipped_optional |-> ctx.skipped_optional \o sel.skipped]

\* `for node_id in all_deps:`; readable is the set of paths that exist and
\* can be read.
RECURSIVE LoadLoop(_, _, _, _, _, _)
LoadLoop(graph, deps, readable, task, pills, ctx) ==
    IF deps = <<>> THEN ctx
    ELSE Only({LoadLoop(graph, Tail(deps), readable, task, pills, next) :
                  next \in {IF /\ HasKey(graph.nodes, Head(deps))
                               /\ Lookup(graph.nodes, Head(deps)).path # <<>>
                               /\ Lookup(graph.nodes, Head(deps)).path \in readable
                            THEN LoadNode(graph, Head(deps), task, pills, ctx)
                            ELSE ctx}})

\* MergeWorkflow without the membership test: every id of the workflow's
\* list is appended.
MergeWorkflow_AppendsAll(all_deps, wf_deps) == all_deps \o wf_deps

\* `for dep in wf_deps: if dep not in all_deps: all_deps.append(dep)`
RECURSIVE MergeWorkflow(_, _)
MergeWorkflow(all_deps, wf_deps) ==
    IF wf_deps = <<>> THEN all_deps
    ELSE Only({MergeWorkflow(next, Tail(wf_deps)) :
                  next \in {IF InList(Head(wf_deps), all_deps) THEN all_deps
                            ELSE Append(all_deps, Head(wf_deps))}})

\* The store behind load_external_file: the expanded paths that exist.
ExternalStore == {PathJoin(HomeDir, <<"g", "/", "e", ".", "m">>)}

\* load_external_file(ref) returns content
Loadable(ref) == ~IsRaise(ExpandPath(ref)) /\ ExpandPath(ref) \in ExternalStore

\* "metadata": the three fields of graph["nodes"].get(entry_id, {})
Metadata(graph, entry) ==
    IF HasKey(graph.nodes, entry)
    THEN [type |-> Lookup(graph.nodes, entry).type,
          specialist |-> Lookup(graph.nodes, entry).specialist,
          title |-> Lookup(graph.nodes, entry).title]
    ELSE [type |-> None, specialist |-> None, title |-> None]

NoContext ==
    [files |-> <<>>, external_refs_required |-> {},
     external_refs_optional |-> <<>>, skipped_optional |-> <<>>]

\* What build_context returns for the combined list all_deps and the
\* outcome ctx of its loading loop: the bundle, together with the two lists
\* of optional references.
Bundle(graph, entry, workflow, all_deps, ctx) ==
    [raised |-> None,
     entry |-> entry,
     workflow |-> workflow,
     nodes |-> all_deps,
     files |-> ctx.files,
     external_files |->
         {PathName(r) : r \in {x \in ctx.external_refs_required
                                   \cup Elems(ctx.external_refs_optional) :
                               Loadable(x)}},
     metadata |-> Metadata(graph, entry),
     external_refs_optional |-> ctx.external_refs_optional,
     skipped_optional |-> ctx.skipped_optional]

\* build_context from `# Load file contents` on.
LoadAndBundle(graph, entry, workflow, task, pills, readable, all_deps) ==
    Only({Bundle(graph, entry, workflow, all_deps, ctx) :
            ctx \in {LoadLoop(graph, all_deps, readable, task, pills, NoContext)}})

\* build_context from `# Add workflow if specified` on, entry_deps being the
\* list resolved for the entry.
AddWorkflow(graph, entry, workflow, task, pills, readable, entry_deps) ==
    IF workflow = None \/ workflow = <<>>
    THEN LoadAndBundle(graph, entry, workflow, task, pills, readable, entry_deps)
    ELSE Only({IF IsRaise(wf_deps) THEN [raised |-> wf_deps]
               ELSE LoadAndBundle(graph, entry, workflow, task, pills, readable,
                                  MergeWorkflow(entry_deps, wf_deps)) :
                  wf_deps \in {resolve_dependencies(graph, workflow, FALSE)}})

\* build_context: the exception a resolve_dependencies call raised, or the
\* bundle.
build_context(graph, entry, workflow, task, pills, readable) ==
    Only({IF IsRaise(entry_deps) THEN [raised |-> entry_deps]
          ELSE AddWorkflow(graph, entry, workflow, task, pills, readable, entry_deps) :
             entry_deps \in {resolve_dependencies(graph, entry, FALSE)}})

(***************************************************************************)
(* parse_frontmatter, as far as the header delimiters and the body go, and *)
(* the section format_context_for_spawn makes of a node's file.  The       *)
(* dictionary parsed from the header text stands as that text.             *)
(***************************************************************************)
\* "---"
Marker == <<"-", "-", "-">>

\* r'\n---\n'
ClosingLine == <<"\n", "-", "-", "-", "\n">>

\* re.search of a literal: the start of its first occurrence in s, counted
\* from 0, or -1.
Find(s, sub) ==
    IF Contains(s, sub)
    THEN CHOOSE i \in 0..(Len(s) - Len(sub)) :
             /\ SubSeq(s, i + 1, i + Len(sub)) = sub
             /\ \A j \in 0..(i - 1) : SubSeq(s, j + 1, j + Len(sub)) # sub
    ELSE -1

\* The header text and the body of a document whose closing marker was found
\* at start in content[3:]: end_match.end() is start + 5.
SplitAt(content, start) ==
    [header |-> SubSeq(content, 4, start + 3),
     body |-> From(content, (start + Len(ClosingLine)) + 3 + 1)]

parse_frontmatter(content) ==
    IF ~StartsWith(content, Marker) THEN [header |-> None, body |-> content]
    ELSE Only({IF start = -1 THEN [header |-> None, body |-> content]
               ELSE SplitAt(content, start) :
                  start \in {Find(From(content, 3), ClosingLine)}})

\* The characters str.strip() removes.
Whitespace == {"\n", " "}

RECURSIVE LStrip(_)
LStrip(s) ==
    IF s # <<>> /\ Head(s) \in Whitespace THEN LStrip(Tail(s)) ELSE s

\* str.strip()
Strip(s) == Reverse(LStrip(Reverse(LStrip(s))))

\* format_context_for_spawn: the text under the heading of a node whose file
\* content is given, or None when `if content:` skips the node.
SectionText(content) ==
    IF content = <<>> THEN None ELSE Strip(parse_frontmatter(content).body)

(***************************************************************************)
(* The corpora the checks range over: three documents a.m, b.m and c.m of  *)
(* the knowledge directory, with at most MaxEdges requires/optional        *)
(* entries between them.                                                   *)
(***************************************************************************)
KnowledgeDir == PathJoin(WORKSPACE, <<"k">>)

FileA == <<"a", ".", "m">>
FileB == <<"b", ".", "m">>
FileC == <<"c", ".", "m">>

IdA == <<"a">>
IdB == <<"b">>
IdC == <<"c">>

\* A reference no rule resolves, and one naming a login that does not exist.
Dangling == <<"x">>
GhostUser == <<"~", "g">>

DocFiles == <<FileA, FileB, FileC>>

\* What a requires list may hold: an id, a file name, a dangling reference.
RequiresRefs == {IdA, IdB, FileC, Dangling}

\* What an optional list may hold.
OptionalItems == {Plain(FileC), Conditional(<<"e", ".", "m">>, <<"d">>)}

EdgeChoices ==
    {[doc |-> d, kind |-> "requires", item |-> Plain(r)] :
        d \in 1..Len(DocFiles), r \in RequiresRefs}
    \cup {[doc |-> d, kind |-> "optional", item |-> o] :
        d \in 1..Len(DocFiles), o \in OptionalItems}

\* Entries are listed document by document, requires before optional.
Slot(e) == 2 * e.doc - (IF e.kind = "requires" THEN 1 ELSE 0)

RECURSIVE EdgeLists(_, _)
EdgeLists(k, minSlot) ==
    IF k = 0 THEN {<<>>}
    ELSE {<<>>} \cup UNION {{<<e>> \o rest : rest \in EdgeLists(k - 1, Slot(e))} :
                              e \in {x \in EdgeChoices : Slot(x) >= minSlot}}

ItemsOf(edges, d, kind) ==
    LET sel == SelectSeq(edges, LAMBDA e : e.doc = d /\ e.kind = kind)
    IN [i \in 1..Len(sel) |-> sel[i].item]

PathsOf(items) == [i \in 1..Len(items) |-> items[i].path]

DocTypes == <<<<"s">>, <<"d">>, None>>
DocTitles == <<<<"T">>, None, None>>
DocSpecialists == <<<<"n">>, None, None>>

DocOf(edges, d) ==
    [path |-> PathJoin(KnowledgeDir, DocFiles[d]),
     id |-> None,
     type |-> DocTypes[d],
     title |-> DocTitles[d],
     specialist |-> DocSpecialists[d],
     requires |-> PathsOf(ItemsOf(edges, d, "requires")),
     optional |-> ItemsOf(edges, d, "optional")]

Corpus(edges) == [d \in 1..Len(DocFiles) |-> DocOf(edges, d)]

Graphs == {scan_knowledge_files(Corpus(edges)) : edges \in EdgeLists(MaxEdges, 1)}

\* Entry references: the id of a.m, its path relative to the workspace, its
\* file name, and the home of a login that does not exist.
EntryRefs == {IdA, <<"k", "/">> \o FileA, FileA, GhostUser}

(***************************************************************************)
(* State.                                                                  *)
(***************************************************************************)
VARIABLES
    graph,              \* the Graph Index
    entry_id,           \* the entry reference of the call
    include_optional,   \* the flag of resolve_dependencies
    ref,                \* the reference given to resolve_node_id
    workflow_id,        \* build_context: the workflow reference, or None
    task,               \* build_context: the task text
    pills,              \* build_context: the pill list (empty: none given)
    readable,           \* the paths that exist and can be read
    content,            \* the text of the document given to parse_frontmatter
    pc,                 \* "call", "loop", "done" or "raised"
    queue,              \* resolve_dependencies: queue
    visited,            \* resolve_dependencies: visited
    resolved,           \* resolve_dependencies: resolved
    result,             \* the value returned or the exception raised
    bundle              \* what build_context returned

vars == <<graph, entry_id, include_optional, ref, workflow_id, task, pills,
          readable, content, pc, queue, visited, resolved, result, bundle>>

inputs == <<graph, entry_id, include_optional, ref, workflow_id, task, pills,
            readable, content>>

Locals ==
    [pc |-> pc, queue |-> queue, visited |-> visited, resolved |-> resolved,
     result |-> result]

\* The variables a call does not use stay at these values.
NoResolveCall == include_optional = FALSE /\ queue = <<>> /\ visited = {} /\ resolved = <<>>
NoRefCall == ref = None
NoContextCall ==
    workflow_id = None /\ task = <<>> /\ pills = <<>> /\ readable = {} /\ bundle = None
NoDocCall == content = None

(***************************************************************************)
(* Spec: one call of resolve_dependencies, one loop iteration per step.    *)
(***************************************************************************)
Init ==
    /\ graph \in Graphs
    /\ entry_id \in EntryRefs
    /\ include_optional \in BOOLEAN
    /\ pc = "loop"
    /\ queue = <<entry_id>>
    /\ visited = {}
    /\ resolved = <<>>
    /\ result = None
    /\ NoRefCall
    /\ NoContextCall
    /\ NoDocCall

\* `while queue:` holds: the loop body runs once.
Iterate ==
    /\ pc = "loop"
    /\ queue # <<>>
    /\ \E st \in {LoopBody(graph, include_optional, Locals)} :
          /\ pc' = st.pc
          /\ queue' = st.queue
          /\ visited' = st.visited
          /\ resolved' = st.resolved
          /\ result' = st.result
    /\ UNCHANGED <<inputs, bundle>>

\* `while queue:` fails: the reversed list is returned.
Return ==
    /\ pc = "loop"
    /\ queue = <<>>
    /\ pc' = "done"
    /\ result' = ReturnList(Locals).result
    /\ UNCHANGED <<inputs, queue, visited, resolved, bundle>>

Next == Iterate \/ Return

Spec == Init /\ [][Next]_vars

(***************************************************************************)
(* SpecRef: one call of resolve_node_id.  The corpora hold up to three     *)
(* documents in any scan order: a.m of the knowledge directory, b.m of the *)
(* same directory declaring the id "a.m" (the file name of the first), and *)
(* a.m of the config directory, whose id "a" collides with the first.      *)
(***************************************************************************)
ConfigDir == PathJoin(WORKSPACE, <<"c">>)

RefDocs ==
    {[path |-> PathJoin(KnowledgeDir, FileA), id |-> None, type |-> <<"s">>,
      title |-> None, specialist |-> None, requires |-> <<>>, optional |-> <<>>],
     [path |-> PathJoin(KnowledgeDir, FileB), id |-> FileA, type |-> None,
      title |-> None, specialist |-> None, requires |-> <<>>, optional |-> <<>>],
     [path |-> PathJoin(ConfigDir, FileA), id |-> None, type |-> <<"d">>,
      title |-> None, specialist |-> None, requires |-> <<>>, optional |-> <<>>]}

\* The orders in which a set of documents can be scanned.
RECURSIVE ScanOrders(_)
ScanOrders(docs) ==
    IF docs = {} THEN {<<>>}
    ELSE UNION {{<<d>> \o rest : rest \in ScanOrders(docs \ {d})} : d \in docs}

RefGraphs ==
    {scan_knowledge_files(order) :
        order \in UNION {ScanOrders(docs) : docs \in SUBSET RefDocs \ {{}}}}

\* References: an id, a file name, a path relative to the workspace, an
\* absolute path, a path relative to the home directory, a suffix of a path,
\* the empty string, a reference nothing matches, and the homes of a login
\* that exists and of one that does not.
RefInputs ==
    {IdA, IdB, FileA, FileB,
     <<"k", "/">> \o FileA,
     PathJoin(ConfigDir, FileA),
     <<"~", "/", "w", "/", "k", "/">> \o FileB,
     <<".", "m">>,
     <<>>,
     Dangling,
     <<"~", "r">>,
     GhostUser}

InitRef ==
    /\ graph \in RefGraphs
    /\ ref \in RefInputs
    /\ entry_id = None
    /\ pc = "call"
    /\ result = None
    /\ NoResolveCall
    /\ NoContextCall
    /\ NoDocCall

CallResolveNodeId ==
    /\ pc = "call"
    /\ \E r \in {resolve_node_id(graph, ref)} :
          /\ result' = r
          /\ pc' = IF IsRaise(r) THEN "raised" ELSE "done"
    /\ UNCHANGED <<inputs, queue, visited, resolved, bundle>>

NextRef == CallResolveNodeId

SpecRef == InitRef /\ [][NextRef]_vars

(***************************************************************************)
(* SpecCtx and SpecOpt: one call of build_context.  SpecCtx ranges over    *)
(* the corpora of Spec, the entry references and a workflow reference;     *)
(* SpecOpt over the optional list of one node, the task text and the pill  *)
(* list.                                                                   *)
(***************************************************************************)
NodePaths(g) == {g.by_path[i].key : i \in 1..Len(g.by_path)}

\* Workflow references: none, an id, and a file name.
WorkflowRefs == {None, IdB, FileC}

InitCtx ==
    /\ graph \in Graphs
    /\ entry_id \in EntryRefs
    /\ workflow_id \in WorkflowRefs
    /\ task = <<>>
    /\ pills = <<>>
    /\ readable = NodePaths(graph)
    /\ pc = "call"
    /\ result = None
    /\ bundle = None
    /\ NoResolveCall
    /\ NoRefCall
    /\ NoDocCall

\* Largest number of entries of the optional list in SpecOpt.
MaxOptional == 2

\* Optional entries: plain ones (one in a directory whose name is no part
\* of the stem), and structured ones with a plain, a quoted, an empty, a
\* quoted empty, an invalid, a wildcard and a missing predicate, and one
\* without a path.
OptionalPool ==
    {Plain(<<"D", ".", "m">>),
     Plain(<<"g", "/", "b", ".", "m">>),
     Conditional(<<"~", "/", "g", "/", "e", ".", "m">>, <<"d">>),
     Conditional(<<"d", ".", "m">>, <<"\"", "D", "\"">>),
     Conditional(<<"b", ".", "m">>, <<>>),
     Conditional(<<"b", ".", "e">>, <<"\"", "\"">>),
     Conditional(<<"a", ".", "m">>, <<"(">>),
     Conditional(<<"a", ".", "d">>, <<"d", ".">>),
     Conditional(<<"e", ".", "m">>, None),
     Conditional(None, <<"d">>)}

RECURSIVE ListsUpTo(_, _)
ListsUpTo(S, n) ==
    IF n = 0 THEN {<<>>}
    ELSE {<<>>} \cup {<<x>> \o rest : x \in S, rest \in ListsUpTo(S, n - 1)}

OptDoc(optional) ==
    [path |-> PathJoin(KnowledgeDir, FileA), id |-> None, type |-> <<"s">>,
     title |-> <<"T">>, specialist |-> None, requires |-> <<>>,
     optional |-> optional]

OptGraphs ==
    {scan_knowledge_files(<<OptDoc(optional)>>) :
        optional \in ListsUpTo(OptionalPool, MaxOptional)}

Tasks == {<<>>, <<"b">>, <<"a", "D">>, <<"(", "b">>}

PillLists == {<<>>, <<<<"d">>>>, <<<<"G">>>>, <<<<"x">>, <<"B">>>>, <<<<>>>>}

InitOpt ==
    /\ graph \in OptGraphs
    /\ entry_id = IdA
    /\ workflow_id = None
    /\ task \in Tasks
    /\ pills \in PillLists
    /\ readable \in {NodePaths(graph), {}}
    /\ pc = "call"
    /\ result = None
    /\ bundle = None
    /\ NoResolveCall
    /\ NoRefCall
    /\ NoDocCall

CallBuildContext ==
    /\ pc = "call"
    /\ \E b \in {build_context(graph, entry_id, workflow_id, task, pills, readable)} :
          /\ bundle' = b
          /\ pc' = IF b.raised # None THEN "raised" ELSE "done"
    /\ UNCHANGED <<inputs, queue, visited, resolved, result>>

NextCtx == CallBuildContext

SpecCtx == InitCtx /\ [][NextCtx]_vars

SpecOpt == InitOpt /\ [][NextCtx]_vars

(***************************************************************************)
(* SpecDoc: one document is parsed and formatted as the section of a node. *)
(* The documents are all the texts of at most MaxDocLen characters over a  *)
(* dash, a newline and a letter.                                           *)
(***************************************************************************)
MaxDocLen == 10

DocChars == {"-", "\n", "a"}

Documents == UNION {[1..n -> DocChars] : n \in 0..MaxDocLen}

InitDoc ==
    /\ content \in Documents
    /\ graph = EmptyGraph
    /\ entry_id = None
    /\ pc = "call"
    /\ result = None
    /\ NoResolveCall
    /\ NoRefCall
    /\ NoContextCall

\* parse_frontmatter(content), and the section the formatter makes of it.
CallParseFrontmatter ==
    /\ pc = "call"
    /\ \E parsed \in {parse_frontmatter(content)} :
          result' = [header |-> parsed.header,
                     body |-> parsed.body,
                     section |-> SectionText(content)]
    /\ pc' = "done"
    /\ UNCHANGED <<inputs, queue, visited, resolved, bundle>>

NextDoc == CallParseFrontmatter

SpecDoc == InitDoc /\ [][NextDoc]_vars

(***************************************************************************)
(* SpecScan: scan_knowledge_files, one document registered per step.  The  *)
(* files are a.m and b.m of the knowledge directory and a.m of the config  *)
(* directory; each may declare an id, a type, a requires entry and an      *)
(* optional entry.  The directories are scanned in the order of SCAN_DIRS, *)
(* the files of one directory in any order.                                *)
(***************************************************************************)
ScanPaths ==
    {PathJoin(KnowledgeDir, FileA), PathJoin(KnowledgeDir, FileB),
     PathJoin(ConfigDir, FileA)}

\* The position in SCAN_DIRS of the directory a file is in.
ScanDirIndex(path) == IF StartsWith(path, KnowledgeDir) THEN 1 ELSE 2

ScanDocs ==
    {[path |-> p, id |-> i, type |-> t, title |-> None, specialist |-> None,
      requires |-> r, optional |-> o] :
        p \in ScanPaths, i \in {None, IdA}, t \in {<<"s">>, <<"d">>},
        r \in {<<>>, <<IdB>>}, o \in {<<>>, <<Plain(FileC)>>}}

InitScan ==
    /\ graph = EmptyGraph
    /\ entry_id = None
    /\ pc = "scan"
    /\ result = None
    /\ NoResolveCall
    /\ NoRefCall
    /\ NoContextCall
    /\ NoDocCall

\* The body of `for path in scan_dir.rglob("*"):` for a file not yet seen,
\* in a directory that is not behind the one being scanned.
ScanDocument ==
    /\ pc = "scan"
    /\ \E doc \in ScanDocs :
          /\ ~HasKey(graph.by_path, doc.path)
          /\ \A i \in 1..Len(graph.by_path) :
                ScanDirIndex(graph.by_path[i].key) <= ScanDirIndex(doc.path)
          /\ graph' = RegisterDoc(graph, doc)
    /\ UNCHANGED <<entry_id, include_optional, ref, workflow_id, task, pills,
                   readable, content, pc, queue, visited, resolved, result,
                   bundle>>

\* return graph
ReturnGraph ==
    /\ pc = "scan"
    /\ pc' = "done"
    /\ UNCHANGED <<inputs, queue, visited, resolved, result, bundle>>

NextScan == ScanDocument \/ ReturnGraph

SpecScan == InitScan /\ [][NextScan]_vars

(***************************************************************************)
(* The dependency relation of a Graph Index, stated on its own: which      *)
(* nodes a node's lists refer to, and what is reachable.                   *)
(***************************************************************************)
NodeIds(g) == {g.nodes[i].key : i \in 1..Len(g.nodes)}

\* The indexed nodes the entries of a list resolve to.
TargetsOf(g, items) ==
    {id \in NodeIds(g) : \E i \in 1..Len(items) : ResolveEntry(g, items[i]) = id}

RequiresTargets(g, id) == TargetsOf(g, PlainAll(Lookup(g.nodes, id).requires))
OptionalTargets(g, id) == TargetsOf(g, Lookup(g.nodes, id).optional)

Successors(g, id, with_optional) ==
    RequiresTargets(g, id) \cup (IF with_optional THEN OptionalTargets(g, id) ELSE {})

\* The least set that holds S and every successor of its members.
RECURSIVE Closure(_, _, _)
Closure(g, S, with_optional) ==
    LET T == S \cup UNION {Successors(g, id, with_optional) : id \in S}
    IN IF T = S THEN S ELSE Closure(g, T, with_optional)

\* No node requires itself, directly or through other nodes.
Acyclic(g) ==
    \A id \in NodeIds(g) : id \notin Closure(g, RequiresTargets(g, id), FALSE)

\* The node an entry reference stands for, as a set of at most one id.
EntryNode(g, entry) ==
    IF entry \in NodeIds(g) THEN {entry}
    ELSE {id \in NodeIds(g) : resolve_node_id(g, entry) = id}

Reachable(g, entry, with_optional) == Closure(g, EntryNode(g, entry), with_optional)

NoDuplicates(list) ==
    \A i, j \in 1..Len(list) : list[i] = list[j] => i = j

(***************************************************************************)
(* C1.  For an acyclic Graph Index, the list resolve_dependencies returns  *)
(* with the optional flag off places Y before X whenever X and Y are both  *)
(* in the list and X's requires list holds a reference resolving to Y.     *)
(* The code returns the reversed visit order of a breadth-first search,    *)
(* which is no topological order: TLC refutes this formula.                *)
(***************************************************************************)
C1_DependenciesFirst ==
    (pc = "done" /\ ~include_optional /\ Acyclic(graph)) =>
        \A i, j \in 1..Len(result) :
            result[j] \in RequiresTargets(graph, result[i]) => j < i

(***************************************************************************)
(* C2.  The list resolve_dependencies returns holds each node id at most   *)
(* once, for every graph and every entry reference (id, path or file       *)
(* name).  The visited set records the entry reference as given, not the   *)
(* id it resolves to, so a cycle back to the entry node processes it       *)
(* twice: TLC refutes this formula.                                        *)
(***************************************************************************)
C2_EachIdOnce == pc = "done" => NoDuplicates(result)

(***************************************************************************)
(* C3.  resolve_dependencies terminates with its work queue empty, for     *)
(* every graph, entry reference and flag value.  Every loop iteration pops *)
(* the queue and only a reference not yet visited is expanded, so the loop *)
(* is always left; once it is left the queue changes no more, and the      *)
(* queue becomes empty eventually only if it is empty then.  An exception  *)
(* (C5) leaves the loop with entries still queued: TLC refutes this        *)
(* formula.                                                                *)
(***************************************************************************)
C3_QueueEventuallyEmpty == pc # "loop" => queue = <<>>

(***************************************************************************)
(* C4.  The set of ids resolve_dependencies returns is exactly the set of  *)
(* indexed nodes reachable from the resolved entry node through resolvable *)
(* requires references (flag off), or through resolvable requires and      *)
(* optional references (flag on).                                          *)
(***************************************************************************)
C4_ReturnsReachableSet ==
    pc = "done" => Elems(result) = Reachable(graph, entry_id, include_optional)

\* A call with the flag off has returned two or more nodes and left out
\* node c, which only an optional reference leads to.
C4_Witness ==
    /\ pc = "done"
    /\ ~include_optional
    /\ Len(result) >= 2
    /\ IdC \notin Elems(result)
    /\ IdC \in Reachable(graph, entry_id, TRUE)

(***************************************************************************)
(* C5.  resolve_dependencies never raises, whatever mix of resolvable      *)
(* references, dangling references and structured records the lists hold   *)
(* and for both flag values.  A structured record reached with the flag on *)
(* is looked up as a dict key (TypeError), and a reference to an unknown   *)
(* login's home fails to expand (RuntimeError): TLC refutes this formula.  *)
(***************************************************************************)
C5_NeverRaises == pc # "raised"

(***************************************************************************)
(* C6.  resolve_node_id applies three rules, first match wins: a reference *)
(* that is an indexed id returns that id; otherwise one whose expanded     *)
(* path is an indexed path returns that path's id; otherwise one that is   *)
(* the final component or a suffix of an indexed path returns that path's  *)
(* id; when no rule matches it returns None and does not raise.  Checked   *)
(* under SpecRef.  A reference "~name" of an unknown login matches no rule *)
(* and makes expand_path raise RuntimeError: TLC refutes this formula.     *)
(***************************************************************************)
\* The indexed paths rule 3 accepts for a reference.
PartialMatches(g, r) ==
    {i \in 1..Len(g.by_path) :
        EndsWith(g.by_path[i].key, r) \/ PathName(g.by_path[i].key) = r}

ExactPath(g, r) == ~IsRaise(ExpandPath(r)) /\ HasKey(g.by_path, ExpandPath(r))

C6_PriorityFirstMatch ==
    pc \in {"done", "raised"} =>
        /\ ~IsRaise(result)
        /\ ref \in NodeIds(graph) => result = ref
        /\ (ref \notin NodeIds(graph) /\ ExactPath(graph, ref)) =>
               result = Lookup(graph.by_path, ExpandPath(ref))
        /\ (ref \notin NodeIds(graph) /\ ~ExactPath(graph, ref)
                /\ PartialMatches(graph, ref) # {}) =>
               \E i \in PartialMatches(graph, ref) : result = graph.by_path[i].val
        /\ (ref \notin NodeIds(graph) /\ ~ExactPath(graph, ref)
                /\ PartialMatches(graph, ref) = {}) =>
               result = None

(***************************************************************************)
(* C7.  Checked under SpecOpt.  With no pill list, the optional entries    *)
(* scheduled for load from a loaded node are exactly: every plain entry if *)
(* the task text is non-empty, and every structured entry whose predicate  *)
(* matches the task text case-insensitively; with an empty task text none  *)
(* is.  The predicate of an entry is its when text without the quotes      *)
(* around it; an entry without a when key has no predicate.                *)
(***************************************************************************)
\* The node of SpecOpt, its optional list, and whether its file was loaded.
OptionalOfA == Lookup(graph.nodes, IdA).optional
LoadedA == HasKey(bundle.files, IdA)

\* A case-insensitive search of a predicate in a text: as a regular
\* expression, or literally when it is no valid expression.
PredicateMatches(predicate, text) ==
    IF ReError(predicate) THEN Contains(Lower(text), Lower(predicate))
    ELSE ReSearch(predicate, text)

\* The paths of the entries of a list, in order; an entry without a path
\* counts with the empty path.
EntryPaths(entries) == [i \in 1..Len(entries) |-> GetOr(entries[i].path, <<>>)]

\* The claim as stated: TLC refutes it with an entry whose when text is
\* empty, which the code never selects although the empty expression is found
\* in every text.
C7_Selected(item) ==
    /\ task # <<>>
    /\ item.kind = "dict" =>
           item.when # None /\ PredicateMatches(StripQuotes(item.when), task)

C7_SelectedByTask ==
    (pc = "done" /\ pills = <<>> /\ LoadedA) =>
        bundle.external_refs_optional = EntryPaths(SelectSeq(OptionalOfA, C7_Selected))

\* The claim as amended: a structured entry is selected if and only if its
\* when text is non-empty and its predicate matches.
C7_SelectedNonEmpty(item) ==
    /\ task # <<>>
    /\ item.kind = "dict" =>
           /\ item.when # None
           /\ item.when # <<>>
           /\ PredicateMatches(StripQuotes(item.when), task)

C7_SelectedByTaskNonEmptyWhen ==
    (pc = "done" /\ pills = <<>> /\ LoadedA) =>
        bundle.external_refs_optional = 
            EntryPaths(SelectSeq(OptionalOfA, C7_SelectedNonEmpty))

\* A call without pills and with a task text has scheduled a structured
\* entry whose predicate matches only when case is ignored, and skipped
\* another entry.
C7_Witness ==
    /\ pc = "done"
    /\ pills = <<>>
    /\ LoadedA
    /\ task = <<"a", "D">>
    /\ bundle.skipped_optional # <<>>
    /\ \E i \in 1..Len(OptionalOfA) :
          /\ OptionalOfA[i].kind = "dict"
          /\ OptionalOfA[i].when = <<"d">>
          /\ bundle.external_refs_optional = <<OptionalOfA[i].path>>

(***************************************************************************)
(* C8.  Checked under SpecOpt.  With a non-empty pill list, an optional    *)
(* entry (plain or structured) of a loaded node is scheduled for load if   *)
(* and only if the lower-cased stem of its path contains some lower-cased  *)
(* pill, whatever the task text and the entry's when text.  A structured   *)
(* record without a path makes Path() raise inside the node's try block,   *)
(* and the entries that follow it are neither scheduled nor skipped: TLC   *)
(* refutes this formula.                                                   *)
(***************************************************************************)
C8_SelectedByPillsOnly ==
    (pc = "done" /\ pills # <<>> /\ LoadedA) =>
        \A i \in 1..Len(OptionalOfA) :
            OptionalOfA[i].path # None =>
                (InList(OptionalOfA[i].path, bundle.external_refs_optional)
                 <=> \E k \in 1..Len(pills) :
                        Contains(Lower(PathStem(OptionalOfA[i].path)), Lower(pills[k])))

(***************************************************************************)
(* C9.  Checked under SpecCtx.  When a workflow reference is given, the    *)
(* node list of the bundle is the entry's required-only list, unchanged    *)
(* and in order, followed by the ids of the workflow's required-only list  *)
(* that are not in the entry's list, in the workflow list's order, each    *)
(* appended once.                                                          *)
(***************************************************************************)
\* A list without the repetitions of its elements.
RECURSIVE FirstOccurrences(_)
FirstOccurrences(list) ==
    IF list = <<>> THEN <<>>
    ELSE <<Head(list)>>
         \o FirstOccurrences(SelectSeq(Tail(list), LAMBDA x : x # Head(list)))

EntryList == resolve_dependencies(graph, entry_id, FALSE)
WorkflowList == resolve_dependencies(graph, workflow_id, FALSE)

C9_EntryListThenWorkflow ==
    (pc = "done" /\ workflow_id # None) =>
        bundle.nodes =
            EntryList \o FirstOccurrences(
                SelectSeq(WorkflowList, LAMBDA d : ~InList(d, EntryList)))

\* A bundle was built for a workflow whose list shares an id with the
\* entry's list and adds another.
C9_Witness ==
    /\ pc = "done"
    /\ workflow_id # None
    /\ Len(EntryList) >= 2
    /\ Len(bundle.nodes) > Len(EntryList)
    /\ \E i \in 1..Len(WorkflowList) : InList(WorkflowList[i], EntryList)

(***************************************************************************)
(* C10.  Checked under SpecCtx.  For an entry reference that resolves to   *)
(* an indexed node, given as its id, its path or its file name, the        *)
(* metadata of the bundle is the type, specialist and title of that node.  *)
(* The code looks the entry reference up as an id only, so a path or a     *)
(* file name yields three None values: TLC refutes this formula.           *)
(***************************************************************************)
C10_MetadataOfEntryNode ==
    pc = "done" =>
        \A id \in EntryNode(graph, entry_id) :
            bundle.metadata =
                [type |-> Lookup(graph.nodes, id).type,
                 specialist |-> Lookup(graph.nodes, id).specialist,
                 title |-> Lookup(graph.nodes, id).title]

(***************************************************************************)
(* C11.  Checked under SpecDoc.  For every document that opens with the    *)
(* marker line and has a closing marker line, the body parse_frontmatter   *)
(* returns is exactly the text after the closing marker line, and the      *)
(* formatter's section for the node is that text, trimmed.  The code       *)
(* starts the body one character after the end of the closing line         *)
(* (end_match.end() + 3 + 1), so the first character of that text is       *)
(* dropped: TLC refutes this formula.                                      *)
(***************************************************************************)
OpensWithMarkerLine(doc) == StartsWith(doc, Marker \o <<"\n">>)

\* A line made of the marker alone, after the opening marker.
HasClosingLine(doc) == Contains(From(doc, Len(Marker)), ClosingLine)

\* The text that follows the first closing marker line.
TextAfterClosingLine(doc) ==
    From(doc, Len(Marker) + Find(From(doc, Len(Marker)), ClosingLine)
              + Len(ClosingLine))

C11_BodyIsTextAfterHeader ==
    (pc = "done" /\ OpensWithMarkerLine(content) /\ HasClosingLine(content)) =>
        /\ result.body = TextAfterClosingLine(content)
        /\ result.section = Strip(TextAfterClosingLine(content))

(***************************************************************************)
(* C12.  Checked under SpecScan.  After any sequence of registrations the  *)
(* derived tables agree with the node map: each type list holds an id at   *)
(* most once and only under the type of the node stored for that id; each  *)
(* path of the path lookup maps to an id whose stored node has that path;  *)
(* every edge is an entry of the requires or optional list of the node     *)
(* stored under its source.  When a later document takes the id of an      *)
(* earlier one, only the node map is overwritten; the type list, the path  *)
(* lookup and the edges of the earlier document stay: TLC refutes this     *)
(* formula.                                                                *)
(***************************************************************************)
TypeListsAgree(g) ==
    \A t \in 1..Len(g.by_type) :
        /\ NoDuplicates(g.by_type[t].val)
        /\ \A i \in 1..Len(g.by_type[t].val) :
              /\ HasKey(g.nodes, g.by_type[t].val[i])
              /\ Lookup(g.nodes, g.by_type[t].val[i]).type = g.by_type[t].key

PathLookupAgrees(g) ==
    \A p \in 1..Len(g.by_path) :
        /\ HasKey(g.nodes, g.by_path[p].val)
        /\ Lookup(g.nodes, g.by_path[p].val).path = g.by_path[p].key

EdgesAgree(g) ==
    \A e \in 1..Len(g.edges) :
        /\ HasKey(g.nodes, g.edges[e][1])
        /\ g.edges[e][3] = "requires" =>
               InList(g.edges[e][2].path, Lookup(g.nodes, g.edges[e][1]).requires)
        /\ g.edges[e][3] = "optional" =>
               InList(g.edges[e][2], Lookup(g.nodes, g.edges[e][1]).optional)

C12_DerivedTablesAgree ==
    TypeListsAgree(graph) /\ PathLookupAgrees(graph) /\ EdgesAgree(graph)

====
